---- MODULE Spec2Model ----
(***************************************************************************)
(* A model of harbinger's TCP header codec: the flag sets (flags.rs,       *)
(* tcp_flags.rs), the header codec, checksum and builder (tcp.rs) and the  *)
(* older TcpHeader variant (tcp_headers.rs); and of its echo server        *)
(* (main.rs).  Four specifications: Spec (the codec's calls), SpecBuilder  *)
(* (the builder), SpecFlags (the flag set's operations) and SpecServer     *)
(* (the echo server).                                                      *)
(*                                                                         *)
(* Representation.  A byte buffer is a sequence of numbers in 0..255; the  *)
(* Rust index i is the TLA+ index i + 1 (see At and Slice).  TLC's integers *)
(* are 32-bit signed, so a u32 field is kept as its two 16-bit halves:     *)
(* [hi |-> h, lo |-> l] stands for h * 65536 + l.  A call's outcome is a   *)
(* record [tag, val]: tag is "Ok", "Some", "None" or "Panic", and "Unit"   *)
(* when the call returns no value of its own.  No operation of the code    *)
(* returns an Err.                                                         *)
(***************************************************************************)
EXTENDS Integers, Sequences, FiniteSets

VARIABLES
    builder,    \* the TcpBuilder the setters mutate (tcp.rs:180-187)
    tcp,        \* the header value (Tcp / TcpHeader) the methods are called on
    src_ip,     \* source address, 4 octets
    dst_ip,     \* destination address, 4 octets
    payload,    \* payload bytes
    op,         \* the operation called last
    arg,        \* the value handed to the last setter or flag operation
    bytes,      \* the buffer handed to the last decode call
    ret,        \* what the last call returned
    last_set,   \* history: for each builder field, the argument of the last
                \* call of its setter, or None when it was never called
    states,     \* the echo server's shared map from peer address to state
    conns,      \* the echo server's connections, in the order of their accept
    main        \* where the echo server's accept loop stands, and the address
                \* of the connection it is setting up

server_vars == <<states, conns, main>>

vars == <<builder, tcp, src_ip, dst_ip, payload, op, arg, bytes, ret, last_set,
          states, conns, main>>

(***************************************************************************)
(* Bounds of the model.                                                    *)
(***************************************************************************)
\* payloads of every length up to MaxPayloadLen over PayloadBytes are tried
MaxPayloadLen == 3
\* transport lengths up to 65536 + MaxOverflow are tried
MaxOverflow == 1
\* the builder is run on payloads of every length up to MaxBuilderPayloadLen
MaxBuilderPayloadLen == 2
\* the echo server accepts up to MaxConns connections
MaxConns == 3

(***************************************************************************)
(* Machine arithmetic.                                                     *)
(***************************************************************************)
RECURSIVE BitAnd(_, _)
BitAnd(a, b) ==
    IF a = 0 \/ b = 0 THEN 0
    ELSE (a % 2) * (b % 2) + 2 * BitAnd(a \div 2, b \div 2)

RECURSIVE BitOr(_, _)
BitOr(a, b) ==
    IF a = 0 THEN b
    ELSE IF b = 0 THEN a
    ELSE (IF a % 2 = 1 \/ b % 2 = 1 THEN 1 ELSE 0) + 2 * BitOr(a \div 2, b \div 2)

\* `x as u16`: the low 16 bits
AsU16(x) == x % 65536

\* `!x` on a u16
NotU16(x) == 65535 - x

\* u16::to_be_bytes
U16_to_be_bytes(v) == <<v \div 256, v % 256>>

\* u32::to_be_bytes, on the two halves of the u32
U32_to_be_bytes(v) == U16_to_be_bytes(v.hi) \o U16_to_be_bytes(v.lo)

\* u16::from_be_bytes, on a 2-byte slice
U16_from_be_bytes(b) == b[1] * 256 + b[2]

\* u32::from_be_bytes, on a 4-byte slice
U32_from_be_bytes(b) == [hi |-> b[1] * 256 + b[2], lo |-> b[3] * 256 + b[4]]

\* bytes[i], with Rust's index
At(b, i) == b[i + 1]

\* bytes[lo..hi], with Rust's indexes
Slice(b, lo, hi) == SubSeq(b, lo + 1, hi)

(***************************************************************************)
(* Outcomes of a call.                                                     *)
(***************************************************************************)
Ok(v) == [tag |-> "Ok", val |-> v]
Some(v) == [tag |-> "Some", val |-> v]
None == [tag |-> "None", val |-> <<>>]
Panic == [tag |-> "Panic", val |-> <<>>]
NoRet == [tag |-> "Unit", val |-> <<>>]

\* the argument of a call that takes no setter value and no flag
NoArg == "none"

(***************************************************************************)
(* flags.rs: TcpFlags, a bitflags! set over u8.                            *)
(***************************************************************************)
UNINT == 0
FIN == 1
SYN == 2
RST == 4
PSH == 8
ACK == 16
URG == 32
ECE == 64
CWR == 128

\* bitflags' all(): the union of the declared constants
TcpFlags_all ==
    BitOr(UNINT, BitOr(FIN, BitOr(SYN, BitOr(RST, BitOr(PSH,
        BitOr(ACK, BitOr(URG, BitOr(ECE, CWR))))))))

\* bitflags' from_bits: None when a bit outside the declared constants is set
from_bits(b) ==
    IF BitAnd(b, 255 - TcpFlags_all) = 0 THEN Some(b) ELSE None

\* bitflags' contains: every bit of flag is set in self
contains(self, flag) == BitAnd(self, flag) = flag

\* `a | b` of two flag sets
union(self, other) == BitOr(self, other)

\* insert sets the bits of other in the set it is called on
insert(self, other) == BitOr(self, other)

\* a remove that flips the bits of other
remove_toggle(self, other) == BitOr(self, other) - BitAnd(self, other)

\* remove clears the bits of other in the set it is called on
remove(self, other) == BitAnd(self, TcpFlags_all - other)

\* [&str]::join
RECURSIVE join(_, _)
join(names, sep) ==
    IF names = <<>> THEN ""
    ELSE IF Len(names) = 1 THEN names[1]
    ELSE names[1] \o sep \o join(Tail(names), sep)

DecDigit == <<"0", "1", "2", "3", "4", "5", "6", "7", "8", "9">>
HexDigit == DecDigit \o <<"a", "b", "c", "d", "e", "f">>

\* "{}" of an unsigned number: decimal, no padding
RECURSIVE fmt_dec(_)
fmt_dec(n) ==
    IF n < 10 THEN DecDigit[n + 1]
    ELSE fmt_dec(n \div 10) \o DecDigit[(n % 10) + 1]

\* "{:x}" of an unsigned number: lower-case hexadecimal, no padding
RECURSIVE fmt_hex(_)
fmt_hex(n) ==
    IF n < 16 THEN HexDigit[n + 1]
    ELSE fmt_hex(n \div 16) \o HexDigit[(n % 16) + 1]

\* one `if self.contains(f) { flags.push(name) }`
push_if(names, cond, name) == IF cond THEN Append(names, name) ELSE names

\* a rendering that tests SYN before FIN
TcpFlags_fmt_syn_first(self) ==
    LET f1 == push_if(<<>>, contains(self, SYN), "SYN")
        f2 == push_if(f1, contains(self, FIN), "FIN")
        f3 == push_if(f2, contains(self, RST), "RST")
        f4 == push_if(f3, contains(self, PSH), "PSH")
        f5 == push_if(f4, contains(self, ACK), "ACK")
        f6 == push_if(f5, contains(self, URG), "URG")
        f7 == push_if(f6, contains(self, ECE), "ECE")
        flags == push_if(f7, contains(self, CWR), "CWR")
    IN  IF flags = <<>> THEN "UNINT " \o fmt_dec(self)
        ELSE join(flags, " | ") \o " " \o fmt_dec(self)

\* impl fmt::Display for TcpFlags
TcpFlags_fmt(self) ==
    LET f1 == push_if(<<>>, contains(self, FIN), "FIN")
        f2 == push_if(f1, contains(self, SYN), "SYN")
        f3 == push_if(f2, contains(self, RST), "RST")
        f4 == push_if(f3, contains(self, PSH), "PSH")
        f5 == push_if(f4, contains(self, ACK), "ACK")
        f6 == push_if(f5, contains(self, URG), "URG")
        f7 == push_if(f6, contains(self, ECE), "ECE")
        flags == push_if(f7, contains(self, CWR), "CWR")
    IN  IF flags = <<>> THEN "UNINT " \o fmt_dec(self)
        ELSE join(flags, " | ") \o " " \o fmt_dec(self)

(***************************************************************************)
(* tcp_flags.rs: TcpFlag, a plain wrapper of a byte.                       *)
(***************************************************************************)
\* TcpFlag::has_flag
has_flag(self, flag) == BitAnd(self, flag) # 0

\* TcpFlag::names
TcpFlag_names(self) ==
    LET n1 == push_if(<<>>, has_flag(self, CWR), "CWR")
        n2 == push_if(n1, has_flag(self, ECE), "ECE")
        n3 == push_if(n2, has_flag(self, URG), "URG")
        n4 == push_if(n3, has_flag(self, ACK), "ACK")
        n5 == push_if(n4, has_flag(self, PSH), "PSH")
        n6 == push_if(n5, has_flag(self, RST), "RST")
        n7 == push_if(n6, has_flag(self, SYN), "SYN")
    IN  push_if(n7, has_flag(self, FIN), "FIN")

\* impl fmt::Display for TcpFlag
TcpFlag_fmt(self) == fmt_hex(self) \o " " \o join(TcpFlag_names(self), ", ")

(***************************************************************************)
(* tcp.rs: the Tcp header.  A header is a record                           *)
(* [source_port, dest_port, seq_num, ack_num, flags, window_size,          *)
(* checksum]; flags is the TcpFlags' bits().                               *)
(***************************************************************************)
\* to_bytes with the ports written least-significant byte first
to_bytes_le(self) ==
    <<self.source_port % 256, self.source_port \div 256>>
        \o <<self.dest_port % 256, self.dest_port \div 256>>
        \o U32_to_be_bytes(self.seq_num)
        \o U32_to_be_bytes(self.ack_num)
        \o <<BitOr(5 * 16, 0)>>
        \o <<self.flags>>
        \o U16_to_be_bytes(self.window_size)
        \o U16_to_be_bytes(self.checksum)
        \o U16_to_be_bytes(0)

\* Tcp::to_bytes
to_bytes(self) ==
    U16_to_be_bytes(self.source_port)
        \o U16_to_be_bytes(self.dest_port)
        \o U32_to_be_bytes(self.seq_num)
        \o U32_to_be_bytes(self.ack_num)
        \o <<BitOr(5 * 16, 0)>>
        \o <<self.flags>>
        \o U16_to_be_bytes(self.window_size)
        \o U16_to_be_bytes(self.checksum)
        \o U16_to_be_bytes(0)

\* the k-th (from 0) chunk of b.chunks(2): two bytes, or the last lone byte
chunk(b, k) ==
    Slice(b, 2 * k, IF 2 * k + 2 <= Len(b) THEN 2 * k + 2 ELSE Len(b))

\* the body of `for chunk in self.to_bytes().chunks(2)`
header_word(c) == U16_from_be_bytes(c)

\* the body of `for chunk in payload.chunks(2)`
payload_word(c) ==
    IF Len(c) = 2 THEN U16_from_be_bytes(c) ELSE AsU16(c[1])

\* what the header loop adds to sum, over the chunks lo..hi.  The additions
\* are grouped in halves so that the evaluation stays shallow; within the
\* bounds no partial sum reaches 2^31, so u32's `+=` never wraps.
RECURSIVE header_sum(_, _, _)
header_sum(b, lo, hi) ==
    IF lo > hi THEN 0
    ELSE IF lo = hi THEN header_word(chunk(b, lo))
    ELSE header_sum(b, lo, (lo + hi) \div 2)
            + header_sum(b, (lo + hi) \div 2 + 1, hi)

\* what the payload loop adds to sum, over the chunks lo..hi
RECURSIVE payload_sum(_, _, _)
payload_sum(b, lo, hi) ==
    IF lo > hi THEN 0
    ELSE IF lo = hi THEN payload_word(chunk(b, lo))
    ELSE payload_sum(b, lo, (lo + hi) \div 2)
            + payload_sum(b, (lo + hi) \div 2 + 1, hi)

\* the number of chunks of b.chunks(2)
n_chunks(b) == (Len(b) + 1) \div 2

\* `let tcp_length = (self.to_bytes().len() + payload.len()) as u16`
tcp_length(header, data) == AsU16(Len(header) + Len(data))

\* sum before the fold: pseudo-header, header and payload
checksum_sum(header, src, dst, data) ==
    U16_from_be_bytes(Slice(src, 0, 2))
        + U16_from_be_bytes(Slice(src, 2, 4))
        + U16_from_be_bytes(Slice(dst, 0, 2))
        + U16_from_be_bytes(Slice(dst, 2, 4))
        + 6
        + tcp_length(header, data)
        + header_sum(header, 0, n_chunks(header) - 1)
        + payload_sum(data, 0, n_chunks(data) - 1)

\* a checksum that drops the carries instead of adding them back
fold_none(sum) == sum

\* `while (sum >> 16) > 0 { sum = (sum & 0xFFFF) + (sum >> 16); }`
RECURSIVE fold(_)
fold(sum) ==
    IF sum \div 65536 > 0
    THEN fold(BitAnd(sum, 65535) + sum \div 65536)
    ELSE sum

\* Tcp::calculate_checksum
\* a checksum that returns the carry half of the folded sum
calculate_checksum_carry(self, src, dst, data) ==
    fold(checksum_sum(to_bytes(self), src, dst, data)) \div 65536

calculate_checksum(self, src, dst, data) ==
    NotU16(AsU16(fold(checksum_sum(to_bytes(self), src, dst, data))))

\* build_packet that writes the header with its checksum field cleared
build_packet_zero_checksum(self, data) ==
    to_bytes([self EXCEPT !.checksum = 0]) \o data

\* Tcp::build_packet
build_packet(self, data) == to_bytes(self) \o data

\* try_from that reads the flags from offset 12
try_from_flags12(b) ==
    IF Len(b) < 20 THEN Panic
    ELSE LET flags == from_bits(At(b, 12))
         IN  IF flags.tag = "None" THEN Panic
             ELSE Ok([source_port |-> U16_from_be_bytes(Slice(b, 0, 2)),
                      dest_port   |-> U16_from_be_bytes(Slice(b, 2, 4)),
                      seq_num     |-> U32_from_be_bytes(Slice(b, 4, 8)),
                      ack_num     |-> U32_from_be_bytes(Slice(b, 8, 12)),
                      flags       |-> flags.val,
                      window_size |-> U16_from_be_bytes(Slice(b, 14, 16)),
                      checksum    |-> U16_from_be_bytes(Slice(b, 16, 18))])

\* impl TryFrom<&[u8]> for Tcp
try_from(b) ==
    IF Len(b) < 20 THEN Panic
    ELSE LET flags == from_bits(At(b, 13))
         IN  IF flags.tag = "None" THEN Panic
             ELSE Ok([source_port |-> U16_from_be_bytes(Slice(b, 0, 2)),
                      dest_port   |-> U16_from_be_bytes(Slice(b, 2, 4)),
                      seq_num     |-> U32_from_be_bytes(Slice(b, 4, 8)),
                      ack_num     |-> U32_from_be_bytes(Slice(b, 8, 12)),
                      flags       |-> flags.val,
                      window_size |-> U16_from_be_bytes(Slice(b, 14, 16)),
                      checksum    |-> U16_from_be_bytes(Slice(b, 16, 18))])

\* U+FFFD, what an invalid sequence is replaced by
REPLACEMENT == 65533

\* a UTF-8 continuation byte, 0x80..0xBF
utf8_is_cont_byte(x) == 128 <= x /\ x <= 191

\* the values the byte after the first byte b0 of a 3- or 4-byte sequence
\* may have
utf8_second_ok(b0, b1) ==
    IF b0 = 224 THEN 160 <= b1 /\ b1 <= 191
    ELSE IF b0 = 237 THEN 128 <= b1 /\ b1 <= 159
    ELSE IF b0 = 240 THEN 144 <= b1 /\ b1 <= 191
    ELSE IF b0 = 244 THEN 128 <= b1 /\ b1 <= 143
    ELSE utf8_is_cont_byte(b1)

\* the chunk that starts at the Rust index i of b: how many bytes it takes
\* and the code point it gives; a byte past the end reads as 0
utf8_chunk(b, i) ==
    LET get(k) == IF i + k < Len(b) THEN At(b, i + k) ELSE 0
        b0 == get(0)
        b1 == get(1)
        b2 == get(2)
        b3 == get(3)
        invalid(n) == [len |-> n, cp |-> REPLACEMENT]
    IN  IF b0 < 128 THEN [len |-> 1, cp |-> b0]
        ELSE IF 194 <= b0 /\ b0 <= 223
        THEN IF utf8_is_cont_byte(b1)
             THEN [len |-> 2, cp |-> (b0 - 192) * 64 + (b1 - 128)]
             ELSE invalid(1)
        ELSE IF 224 <= b0 /\ b0 <= 239
        THEN IF ~utf8_second_ok(b0, b1) THEN invalid(1)
             ELSE IF ~utf8_is_cont_byte(b2) THEN invalid(2)
             ELSE [len |-> 3,
                   cp |-> (b0 - 224) * 4096 + (b1 - 128) * 64 + (b2 - 128)]
        ELSE IF 240 <= b0 /\ b0 <= 244
        THEN IF ~utf8_second_ok(b0, b1) THEN invalid(1)
             ELSE IF ~utf8_is_cont_byte(b2) THEN invalid(2)
             ELSE IF ~utf8_is_cont_byte(b3) THEN invalid(3)
             ELSE [len |-> 4,
                   cp |-> (b0 - 240) * 262144 + (b1 - 128) * 4096
                            + (b2 - 128) * 64 + (b3 - 128)]
        ELSE invalid(1)

\* the byte at the Rust index i was taken by a chunk that starts before it:
\* a chunk takes only continuation bytes after its first byte, so a byte
\* that is not a continuation byte always starts a chunk
utf8_taken(b, i) ==
    /\ utf8_is_cont_byte(At(b, i))
    /\ \E j \in (IF i > 3 THEN i - 3 ELSE 0)..(i - 1) :
           /\ ~utf8_is_cont_byte(At(b, j))
           /\ \A k \in (j + 1)..(i - 1) : utf8_is_cont_byte(At(b, k))
           /\ i < j + utf8_chunk(b, j).len

utf8_starts_chunk(x) == x >= 0

\* String::from_utf8_lossy, as the sequence of the string's code points:
\* each valid sequence gives its code point, each invalid sequence (cut at
\* the first byte that cannot continue it) gives one U+FFFD
from_utf8_lossy(b) ==
    LET at_each == [n \in 1..Len(b) |->
                       IF utf8_taken(b, n - 1) THEN -1
                       ELSE utf8_chunk(b, n - 1).cp]
    IN  SelectSeq(at_each, utf8_starts_chunk)

\* Tcp::parse_packet
parse_packet(b) ==
    LET r == try_from(b)
    IN  IF r.tag # "Ok" THEN Panic
        ELSE Ok([tcp     |-> r.val,
                 payload |-> IF Len(b) > 20
                             THEN Some(from_utf8_lossy(Slice(b, 20, Len(b))))
                             ELSE None])

(***************************************************************************)
(* tcp.rs: TcpBuilder.                                                     *)
(***************************************************************************)
\* TcpBuilder::new
TcpBuilder_new ==
    [source_port |-> 0, dest_port |-> 0,
     seq_num |-> [hi |-> 0, lo |-> 0], ack_num |-> [hi |-> 0, lo |-> 0],
     flags |-> UNINT, window_size |-> 1024]

\* a build that leaves the checksum field at 0
build_checksum_unset(self, src, dst, data) ==
    [source_port |-> self.source_port, dest_port |-> self.dest_port,
     seq_num |-> self.seq_num, ack_num |-> self.ack_num,
     flags |-> self.flags, checksum |-> 0, window_size |-> self.window_size]

\* TcpBuilder::build
build(self, src, dst, data) ==
    LET t == [source_port |-> self.source_port,
              dest_port   |-> self.dest_port,
              seq_num     |-> self.seq_num,
              ack_num     |-> self.ack_num,
              flags       |-> self.flags,
              checksum    |-> 0,
              window_size |-> self.window_size]
    IN  [t EXCEPT !.checksum = calculate_checksum(t, src, dst, data)]

(***************************************************************************)
(* tcp_headers.rs: TcpHeader, the older variant; flags is a plain u8.      *)
(***************************************************************************)
\* TcpHeader::from_bytes
TcpHeader_from_bytes(b) ==
    IF Len(b) < 20 THEN None
    ELSE Some([source_port |-> U16_from_be_bytes(Slice(b, 0, 2)),
               dest_port   |-> U16_from_be_bytes(Slice(b, 2, 4)),
               seq_num     |-> U32_from_be_bytes(Slice(b, 4, 8)),
               ack_num     |-> U32_from_be_bytes(Slice(b, 8, 12)),
               flags       |-> At(b, 13),
               window_size |-> U16_from_be_bytes(Slice(b, 14, 16)),
               checksum    |-> U16_from_be_bytes(Slice(b, 16, 18))])

\* TcpHeader::to_bytes
TcpHeader_to_bytes(self) ==
    U16_to_be_bytes(self.source_port)
        \o U16_to_be_bytes(self.dest_port)
        \o U32_to_be_bytes(self.seq_num)
        \o U32_to_be_bytes(self.ack_num)
        \o <<BitOr(5 * 16, 0)>>
        \o <<self.flags>>
        \o U16_to_be_bytes(self.window_size)
        \o U16_to_be_bytes(self.checksum)
        \o U16_to_be_bytes(0)

\* TcpHeader::calculate_checksum
TcpHeader_calculate_checksum(self, src, dst, data) ==
    NotU16(AsU16(fold(checksum_sum(TcpHeader_to_bytes(self), src, dst, data))))

\* TcpHeader::to_be_bytes
TcpHeader_to_be_bytes(self, src, dst, data) ==
    LET checksum == TcpHeader_calculate_checksum(self, src, dst, data)
        raw_bytes == TcpHeader_to_bytes(self)
    IN  Slice(raw_bytes, 0, 16) \o U16_to_be_bytes(checksum)
            \o Slice(raw_bytes, 18, 20)

\* TcpHeader::build_packet
TcpHeader_build_packet(self, data) == TcpHeader_to_bytes(self) \o data

(***************************************************************************)
(* The values the operations are applied to.                               *)
(***************************************************************************)
\* a u32 from its two 16-bit halves
U32(h, l) == [hi |-> h, lo |-> l]

\* tests::get_tcp(): ports 49320 and 8080, seq 0x12345678, ack 0x87654321,
\* SYN | ACK, window 255, checksum 61453
SampleTcp ==
    [source_port |-> 49320, dest_port |-> 8080,
     seq_num |-> U32(4660, 22136), ack_num |-> U32(34661, 17185),
     flags |-> BitOr(SYN, ACK), window_size |-> 255, checksum |-> 61453]

\* the sample header under each of the 256 flag bytes
FlagHeaders == {[SampleTcp EXCEPT !.flags = f] : f \in 0..255}

\* headers at the ends of every field's range
GridHeaders ==
    [source_port : {0, 65535}, dest_port : {8080},
     seq_num : {U32(0, 0), U32(65535, 65535)}, ack_num : {U32(34661, 17185)},
     flags : {UNINT, BitOr(SYN, ACK)}, window_size : {255, 1024},
     checksum : {0, 61453}]

\* b"Hello, TCP!"
HelloTcp == <<72, 101, 108, 108, 111, 44, 32, 84, 67, 80, 33>>

\* b"GET / HTTP/1.1\r\nHost: example.com\r\n\r\n"
GetRequest ==
    <<71, 69, 84, 32, 47, 32, 72, 84, 84, 80, 47, 49, 46, 49, 13, 10,
      72, 111, 115, 116, 58, 32, 101, 120, 97, 109, 112, 108, 101, 46,
      99, 111, 109, 13, 10, 13, 10>>

\* the bytes short payloads are made of
PayloadBytes == {1, 255}

\* every payload over PayloadBytes of length at most n
PayloadsUpTo(n) == UNION {[1..k -> PayloadBytes] : k \in 0..n}

\* n copies of the byte b
RECURSIVE Repeat(_, _)
Repeat(b, n) ==
    IF n = 0 THEN <<>>
    ELSE IF n % 2 = 0 THEN LET h == Repeat(b, n \div 2) IN h \o h
    ELSE <<b>> \o Repeat(b, n - 1)

\* payloads that bring the transport length 20 + len to 65535, the largest a
\* u16 holds, and to 65536 .. 65536 + MaxOverflow
LargePayloads == {Repeat(1, 65535 - 20 + d) : d \in 0..(MaxOverflow + 1)}

\* Ipv4Addr::new(192, 168, 1, 1) and (192, 168, 1, 2), the tests' addresses
SampleSrc == <<192, 168, 1, 1>>
SampleDst == <<192, 168, 1, 2>>

AddrPairs ==
    {<<SampleSrc, SampleDst>>,
     <<(<<127, 0, 0, 1>>), (<<127, 0, 0, 1>>)>>,
     <<(<<255, 255, 255, 255>>), (<<255, 255, 255, 254>>)>>}

\* the 20 bytes of the known vector: C0 A8 1F 90 12 34 56 78 87 65 43 21
\* 50 18 00 FF F0 0D 00 00
KnownVector ==
    <<192, 168, 31, 144, 18, 52, 86, 120, 135, 101, 67, 33,
      80, 24, 0, 255, 240, 13, 0, 0>>

\* payloads with multi-byte, truncated and invalid UTF-8 sequences
Utf8Payloads ==
    {<<195, 169>>, <<226, 130, 172>>, <<226, 130>>, <<240, 159, 152, 128>>,
     <<104, 195, 169, 255, 33>>, <<237, 160, 128>>, <<240, 159, 65>>,
     <<128, 195>>}

\* the buffers handed to the decoders: the segment of tcp and payload cut to
\* 0, 19, 20 and all of its bytes, and the known vector
DecodeInputs ==
    LET packet == build_packet(tcp, payload)
    IN  {Slice(packet, 0, n) : n \in {0, 19, 20, Len(packet)}} \cup {KnownVector}

(***************************************************************************)
(* main.rs: the echo server.  The map is a function whose domain is the    *)
(* set of its keys.                                                        *)
(***************************************************************************)
\* the peer addresses accept may return
Addrs == {"peer_a", "peer_b", "peer_c"}

HashMap_new == << >>

HashMap_insert(m, k, v) ==
    [x \in (DOMAIN m) \cup {k} |-> IF x = k THEN v ELSE m[x]]

HashMap_remove_entry(m, k) == [x \in (DOMAIN m) \ {k} |-> m[x]]

simulate_handshake(addr, m) ==
    LET m1 == HashMap_insert(m, addr, "SynReceived")
        m2 == HashMap_insert(m1, addr, "SynAckSent")
    IN  HashMap_insert(m2, addr, "Established")

new_conn_info(addr, m) ==
    LET m1 == HashMap_insert(m, addr, "Listen")
        m2 == HashMap_insert(m1, addr, "SynReceived")
    IN  HashMap_insert(m2, addr, "Established")

close_connection(addr, m) == HashMap_remove_entry(m, addr)

\* a connection that was not accepted yet
NoConn == [addr |-> "none", pc |-> "none", end |-> "none"]

\* the server before main has run
ServerNotStarted ==
    /\ states = HashMap_new
    /\ conns = [i \in 1..MaxConns |-> NoConn]
    /\ main = [pc |-> "accept", addr |-> "none"]

\* the history of a builder no setter was called on
NeverSet ==
    [source_port |-> None, dest_port |-> None, seq_num |-> None,
     ack_num |-> None, flags |-> None, window_size |-> None]

(***************************************************************************)
(* The codec: every operation is a pure function of the header, the        *)
(* addresses, the payload and the buffer it is given.                      *)
(***************************************************************************)
Init ==
    /\ ServerNotStarted
    /\ builder = TcpBuilder_new
    /\ last_set = NeverSet
    /\ op = "init"
    /\ arg = NoArg
    /\ bytes = <<>>
    /\ ret = NoRet
    /\ \/ /\ tcp \in FlagHeaders
          /\ payload \in {<<>>, HelloTcp}
          /\ src_ip = SampleSrc
          /\ dst_ip = SampleDst
       \/ /\ tcp \in GridHeaders
          /\ payload \in PayloadsUpTo(MaxPayloadLen)
          /\ \E pair \in AddrPairs : src_ip = pair[1] /\ dst_ip = pair[2]
       \/ /\ tcp = SampleTcp
          /\ payload \in {GetRequest} \cup LargePayloads \cup Utf8Payloads
          /\ src_ip = SampleSrc
          /\ dst_ip = SampleDst
       \/ /\ tcp = [SampleTcp EXCEPT !.checksum = 0]
          /\ payload = HelloTcp
          /\ src_ip = SampleSrc
          /\ dst_ip = SampleDst

\* a call of o with the buffer b that returns r
Call(o, b, r) ==
    /\ op' = o
    /\ bytes' = b
    /\ ret' = r
    /\ arg' = NoArg
    /\ UNCHANGED <<builder, tcp, src_ip, dst_ip, payload, last_set, server_vars>>

ToBytes == Call("to_bytes", <<>>, Ok(to_bytes(tcp)))

CalculateChecksum ==
    Call("calculate_checksum", <<>>,
         Ok(calculate_checksum(tcp, src_ip, dst_ip, payload)))

BuildPacket == Call("build_packet", <<>>, Ok(build_packet(tcp, payload)))

TryFrom == \E b \in DecodeInputs : Call("try_from", b, try_from(b))

ParsePacket == \E b \in DecodeInputs : Call("parse_packet", b, parse_packet(b))

FmtTcpFlags == Call("TcpFlags_fmt", <<>>, Ok(TcpFlags_fmt(tcp.flags)))

FmtTcpFlag == Call("TcpFlag_fmt", <<>>, Ok(TcpFlag_fmt(tcp.flags)))

HeaderFromBytes ==
    \E b \in DecodeInputs :
        Call("TcpHeader_from_bytes", b, TcpHeader_from_bytes(b))

HeaderToBytes == Call("TcpHeader_to_bytes", <<>>, Ok(TcpHeader_to_bytes(tcp)))

HeaderCalculateChecksum ==
    Call("TcpHeader_calculate_checksum", <<>>,
         Ok(TcpHeader_calculate_checksum(tcp, src_ip, dst_ip, payload)))

HeaderToBeBytes ==
    Call("TcpHeader_to_be_bytes", <<>>,
         Ok(TcpHeader_to_be_bytes(tcp, src_ip, dst_ip, payload)))

HeaderBuildPacket ==
    Call("TcpHeader_build_packet", <<>>, Ok(TcpHeader_build_packet(tcp, payload)))

Next ==
    \/ ToBytes
    \/ CalculateChecksum
    \/ BuildPacket
    \/ TryFrom
    \/ ParsePacket
    \/ FmtTcpFlags
    \/ FmtTcpFlag
    \/ HeaderFromBytes
    \/ HeaderToBytes
    \/ HeaderCalculateChecksum
    \/ HeaderToBeBytes
    \/ HeaderBuildPacket

Spec == Init /\ [][Next]_vars

(***************************************************************************)
(* The builder: setters in any order, then build.                          *)
(***************************************************************************)
\* the arguments the setters are called with
PortArgs == {0, 49320}
SeqArgs == {U32(0, 0), U32(34661, 17185)}
FlagArgs == {UNINT, SYN, BitOr(SYN, ACK)}
WindowArgs == {255, 1024}

InitBuilder ==
    /\ ServerNotStarted
    /\ builder = TcpBuilder_new
    /\ last_set = NeverSet
    /\ arg = NoArg
    /\ tcp = SampleTcp
    /\ op = "new"
    /\ bytes = <<>>
    /\ ret = NoRet
    /\ payload \in PayloadsUpTo(MaxBuilderPayloadLen) \cup {HelloTcp}
    /\ \E pair \in AddrPairs : src_ip = pair[1] /\ dst_ip = pair[2]

\* a call of the setter o with the argument a: it leaves the builder as b
\* and returns it
Set(o, a, b) ==
    /\ builder' = b
    /\ last_set' = [last_set EXCEPT ![o] = Some(a)]
    /\ op' = o
    /\ arg' = a
    /\ ret' = NoRet
    /\ UNCHANGED <<tcp, src_ip, dst_ip, payload, bytes, server_vars>>

SourcePort ==
    \E port \in PortArgs :
        Set("source_port", port, [builder EXCEPT !.source_port = port])

\* a dest_port that assigns the neighbouring field
DestPort_into_source_port ==
    \E port \in PortArgs : Set("dest_port", port, [builder EXCEPT !.source_port = port])

DestPort ==
    \E port \in PortArgs :
        Set("dest_port", port, [builder EXCEPT !.dest_port = port])

SeqNum == \E seq \in SeqArgs : Set("seq_num", seq, [builder EXCEPT !.seq_num = seq])

AckNum == \E ack \in SeqArgs : Set("ack_num", ack, [builder EXCEPT !.ack_num = ack])

Flags == \E flags \in FlagArgs : Set("flags", flags, [builder EXCEPT !.flags = flags])

WindowSize ==
    \E size \in WindowArgs :
        Set("window_size", size, [builder EXCEPT !.window_size = size])

Build ==
    /\ op' = "build"
    /\ arg' = NoArg
    /\ ret' = Ok(build(builder, src_ip, dst_ip, payload))
    /\ UNCHANGED <<builder, tcp, src_ip, dst_ip, payload, bytes, last_set, server_vars>>

\* calculate_checksum on the header build has just returned, with the
\* addresses and the payload it was built for
VerifyBuilt ==
    /\ op = "build"
    /\ op' = "verify"
    /\ arg' = NoArg
    /\ ret' = Ok(calculate_checksum(ret.val, src_ip, dst_ip, payload))
    /\ UNCHANGED <<builder, tcp, src_ip, dst_ip, payload, bytes, last_set, server_vars>>

NextBuilder ==
    \/ SourcePort
    \/ DestPort
    \/ SeqNum
    \/ AckNum
    \/ Flags
    \/ WindowSize
    \/ Build
    \/ VerifyBuilt

SpecBuilder == InitBuilder /\ [][NextBuilder]_vars

(***************************************************************************)
(* The flag set: a caller-owned set, the flags of tcp, under insert,       *)
(* remove and `|` with each named flag.                                    *)
(***************************************************************************)
NamedFlags == {FIN, SYN, RST, PSH, ACK, URG, ECE, CWR}

InitFlags ==
    /\ ServerNotStarted
    /\ builder = TcpBuilder_new
    /\ last_set = NeverSet
    /\ tcp \in FlagHeaders
    /\ payload = <<>>
    /\ src_ip = SampleSrc
    /\ dst_ip = SampleDst
    /\ op = "init"
    /\ arg = NoArg
    /\ bytes = <<>>
    /\ ret = NoRet

\* a call that mutates the set in place and returns nothing
Mutate(o, f, s) ==
    /\ tcp' = [tcp EXCEPT !.flags = s]
    /\ op' = o
    /\ arg' = f
    /\ ret' = NoRet
    /\ UNCHANGED <<builder, src_ip, dst_ip, payload, bytes, last_set, server_vars>>

FlagsInsert == \E f \in NamedFlags : Mutate("insert", f, insert(tcp.flags, f))

FlagsRemove == \E f \in NamedFlags : Mutate("remove", f, remove(tcp.flags, f))

FlagsUnion ==
    \E f \in NamedFlags :
        /\ op' = "union"
        /\ arg' = f
        /\ ret' = Ok(union(tcp.flags, f))
        /\ UNCHANGED <<builder, tcp, src_ip, dst_ip, payload, bytes, last_set, server_vars>>

NextFlags ==
    \/ FlagsInsert
    \/ FlagsRemove
    \/ FlagsUnion

SpecFlags == InitFlags /\ [][NextFlags]_vars

(***************************************************************************)
(* The echo server: main accepts a connection, runs simulate_handshake and *)
(* new_conn_info on the shared map and spawns a handler task; the handler  *)
(* tasks run concurrently with main and with each other.  Every access to  *)
(* the map is made with the mutex held and without an await, so each of    *)
(* simulate_handshake, new_conn_info and close_connection is one step.     *)
(* accept returns whatever peer address the system hands it: main never    *)
(* compares it with the keys of the map or with the running handlers, so   *)
(* the address of an earlier connection may come again, also while the     *)
(* handler of that connection is still in its loop.                        *)
(***************************************************************************)
codec_vars == <<builder, tcp, src_ip, dst_ip, payload, op, arg, bytes, ret, last_set>>

InitServer ==
    /\ ServerNotStarted
    /\ builder = TcpBuilder_new
    /\ last_set = NeverSet
    /\ tcp = SampleTcp
    /\ payload = <<>>
    /\ src_ip = SampleSrc
    /\ dst_ip = SampleDst
    /\ op = "init"
    /\ arg = NoArg
    /\ bytes = <<>>
    /\ ret = NoRet

\* listener.accept() returns a connection from addr
Accept ==
    \E addr \in Addrs :
        /\ main.pc = "accept"
        /\ \E i \in 1..MaxConns : conns[i] = NoConn
        /\ main' = [pc |-> "simulate_handshake", addr |-> addr]
        /\ UNCHANGED <<states, conns, codec_vars>>

\* listener.accept() fails and main returns the error
AcceptErr ==
    /\ main.pc = "accept"
    /\ main' = [pc |-> "returned", addr |-> "none"]
    /\ UNCHANGED <<states, conns, codec_vars>>

SimulateHandshake ==
    /\ main.pc = "simulate_handshake"
    /\ states' = simulate_handshake(main.addr, states)
    /\ main' = [main EXCEPT !.pc = "new_conn_info"]
    /\ UNCHANGED <<conns, codec_vars>>

NewConnInfo ==
    /\ main.pc = "new_conn_info"
    /\ states' = new_conn_info(main.addr, states)
    /\ main' = [main EXCEPT !.pc = "spawn"]
    /\ UNCHANGED <<conns, codec_vars>>

\* peer_addr() or local_addr() fails before the map is touched, and main
\* returns the error
NewConnInfoErr ==
    /\ main.pc = "new_conn_info"
    /\ main' = [main EXCEPT !.pc = "returned"]
    /\ UNCHANGED <<states, conns, codec_vars>>

\* tokio::spawn of the handler; the new task starts at its first read
Spawn ==
    /\ main.pc = "spawn"
    /\ LET i == CHOOSE k \in 1..MaxConns :
                   conns[k] = NoConn /\ \A j \in 1..(k - 1) : conns[j] # NoConn
       IN  conns' = [conns EXCEPT ![i] = [addr |-> main.addr, pc |-> "read", end |-> "none"]]
    /\ main' = [pc |-> "accept", addr |-> "none"]
    /\ UNCHANGED <<states, codec_vars>>

\* read returns Ok(0): close_connection, break
ReadZero(i) ==
    /\ conns[i].pc = "read"
    /\ states' = close_connection(conns[i].addr, states)
    /\ conns' = [conns EXCEPT ![i].pc = "done", ![i].end = "closed"]
    /\ UNCHANGED <<main, codec_vars>>

\* read returns Ok(n), n > 0
ReadData(i) ==
    /\ conns[i].pc = "read"
    /\ conns' = [conns EXCEPT ![i].pc = "write"]
    /\ UNCHANGED <<states, main, codec_vars>>

\* read returns Err: break
ReadErr(i) ==
    /\ conns[i].pc = "read"
    /\ conns' = [conns EXCEPT ![i].pc = "done", ![i].end = "read_error"]
    /\ UNCHANGED <<states, main, codec_vars>>

\* write_all returns Ok: back to the read
WriteOk(i) ==
    /\ conns[i].pc = "write"
    /\ conns' = [conns EXCEPT ![i].pc = "read"]
    /\ UNCHANGED <<states, main, codec_vars>>

\* write_all returns Err: break
WriteErr(i) ==
    /\ conns[i].pc = "write"
    /\ conns' = [conns EXCEPT ![i].pc = "done", ![i].end = "write_error"]
    /\ UNCHANGED <<states, main, codec_vars>>

NextServer ==
    \/ Accept
    \/ AcceptErr
    \/ SimulateHandshake
    \/ NewConnInfo
    \/ NewConnInfoErr
    \/ Spawn
    \/ \E i \in 1..MaxConns : ReadZero(i)
    \/ \E i \in 1..MaxConns : ReadData(i)
    \/ \E i \in 1..MaxConns : ReadErr(i)
    \/ \E i \in 1..MaxConns : WriteOk(i)
    \/ \E i \in 1..MaxConns : WriteErr(i)

SpecServer == InitServer /\ [][NextServer]_vars

(***************************************************************************)
(* Properties of the codec.                                                *)
(***************************************************************************)
\* the seven fields of a header
SameFields(a, b) ==
    /\ a.source_port = b.source_port
    /\ a.dest_port = b.dest_port
    /\ a.seq_num = b.seq_num
    /\ a.ack_num = b.ack_num
    /\ a.flags = b.flags
    /\ a.window_size = b.window_size
    /\ a.checksum = b.checksum

\* C1: decoding the 20 bytes that to_bytes produced for a header succeeds
\* and gives back the header's seven fields, for every flag byte and with
\* the stored checksum as it was written, not a recomputed one.
C1_RoundTrip ==
    (op = "try_from" /\ bytes = to_bytes(tcp))
        => (ret.tag = "Ok" /\ SameFields(ret.val, tcp))

\* a round trip of a header with all eight flag bits set, whose stored
\* checksum is not the checksum of the segment
C1_Witness ==
    /\ op = "try_from"
    /\ bytes = to_bytes(tcp)
    /\ tcp.flags = 255
    /\ tcp.checksum # calculate_checksum(tcp, src_ip, dst_ip, payload)
    /\ ret.tag = "Ok"

\* C2: a decoder given fewer than 20 bytes returns a failure value to its
\* caller (an Err or a None); it does not panic.
C2_ShortInputFails ==
    (op \in {"try_from", "parse_packet", "TcpHeader_from_bytes"} /\ Len(bytes) < 20)
        => ret.tag \in {"Err", "None"}

\* C3: to_bytes gives 20 bytes: the ports, seq, ack, window and checksum
\* most-significant byte first at their offsets, the flags byte at 13, 0x50
\* at 12 and zero at 18 and 19.
C3_Layout ==
    op \in {"to_bytes", "TcpHeader_to_bytes"} =>
        LET b == ret.val
        IN  /\ Len(b) = 20
            /\ \A i \in 1..20 : b[i] \in 0..255
            /\ At(b, 0) * 256 + At(b, 1) = tcp.source_port
            /\ At(b, 2) * 256 + At(b, 3) = tcp.dest_port
            /\ At(b, 4) * 256 + At(b, 5) = tcp.seq_num.hi
            /\ At(b, 6) * 256 + At(b, 7) = tcp.seq_num.lo
            /\ At(b, 8) * 256 + At(b, 9) = tcp.ack_num.hi
            /\ At(b, 10) * 256 + At(b, 11) = tcp.ack_num.lo
            /\ At(b, 12) = 80
            /\ At(b, 13) = tcp.flags
            /\ At(b, 14) * 256 + At(b, 15) = tcp.window_size
            /\ At(b, 16) * 256 + At(b, 17) = tcp.checksum
            /\ At(b, 18) = 0
            /\ At(b, 19) = 0

\* the serialization of a header whose source port and sequence number are
\* the largest their widths hold
C3_Witness ==
    /\ op = "to_bytes"
    /\ tcp.source_port = 65535
    /\ tcp.seq_num = U32(65535, 65535)
    /\ tcp.checksum = 61453
    /\ Len(ret.val) = 20

\* the checksum of the same segment with one zero byte after the payload and
\* the transport length kept at 20 + len(payload)
PaddedChecksum(header, src, dst, data) ==
    NotU16(AsU16(fold(checksum_sum(header, src, dst, data \o <<0>>)
                        - tcp_length(header, data \o <<0>>)
                        + tcp_length(header, data))))

\* C4: for a payload of odd length the checksum is the checksum of the
\* payload padded with one zero byte: the lone byte is the high byte of the
\* last word.
C4_OddPayloadPadded ==
    (op \in {"calculate_checksum", "TcpHeader_calculate_checksum"}
        /\ Len(payload) % 2 = 1)
        => ret.val = PaddedChecksum(to_bytes(tcp), src_ip, dst_ip, payload)

\* C5: the checksum of a segment of 65536 bytes or more is not computed: the
\* call fails.
C5_LengthOverflowFails ==
    (op \in {"calculate_checksum", "TcpHeader_calculate_checksum"}
        /\ 20 + Len(payload) >= 65536)
        => ret.tag = "Err"

\* the sum of the big-endian 16-bit words of a buffer of even length
RECURSIVE WordsOf(_)
WordsOf(b) ==
    IF Len(b) < 2 THEN 0
    ELSE b[1] * 256 + b[2] + WordsOf(SubSeq(b, 3, Len(b)))

\* the end-around-carry sum of 16-bit words whose plain sum is s: the value
\* in 1..65535 congruent to s modulo 65535, and 0 for s = 0
EndAroundCarry(s) == IF s = 0 THEN 0 ELSE ((s - 1) % 65535) + 1

\* the internet checksum of the segment whose header fields are h (its
\* checksum field taken as 0), between the addresses src and dst
ReferenceChecksum(h, src, dst, data) ==
    65535 - EndAroundCarry(
        (src[1] * 256 + src[2]) + (src[3] * 256 + src[4])
        + (dst[1] * 256 + dst[2]) + (dst[3] * 256 + dst[4])
        + 6
        + (20 + Len(data))
        + h.source_port + h.dest_port
        + h.seq_num.hi + h.seq_num.lo
        + h.ack_num.hi + h.ack_num.lo
        + (80 * 256 + h.flags)
        + h.window_size
        + 0
        + 0
        + WordsOf(data))

\* C6: for an even-length payload with 20 + len < 65536, build returns a
\* header whose checksum is the internet checksum of the pseudo-header, the
\* header with checksum 0 and the payload.
C6_BuildChecksum ==
    (op = "build" /\ Len(payload) % 2 = 0 /\ 20 + Len(payload) < 65536)
        => ret.val.checksum = ReferenceChecksum(builder, src_ip, dst_ip, payload)

\* a build of a configured builder over a two-byte payload whose word sum
\* carries out of 16 bits
C6_Witness ==
    /\ op = "build"
    /\ Len(payload) = 2
    /\ builder.source_port = 49320
    /\ builder.flags = BitOr(SYN, ACK)
    /\ checksum_sum(to_bytes([ret.val EXCEPT !.checksum = 0]),
                    src_ip, dst_ip, payload) >= 65536
    /\ ret.val.checksum # 0

\* C7: build_packet is the 20 bytes of to_bytes, with the stored checksum as
\* it is, followed by the payload as it is.
C7_BuildPacket ==
    op = "build_packet" =>
        /\ Len(ret.val) = 20 + Len(payload)
        /\ Slice(ret.val, 0, 20) = to_bytes(tcp)
        /\ At(ret.val, 16) * 256 + At(ret.val, 17) = tcp.checksum
        /\ \A i \in 1..Len(payload) : ret.val[20 + i] = payload[i]

\* a segment with an empty payload made from a header whose stored checksum
\* is neither 0 nor the checksum of the segment
C7_Witness ==
    /\ op = "build_packet"
    /\ payload = <<>>
    /\ tcp.checksum = 61453
    /\ tcp.checksum # calculate_checksum(tcp, src_ip, dst_ip, payload)
    /\ Len(ret.val) = 20

\* the flags in the canonical order, with their bits
CanonicalOrder ==
    <<[name |-> "FIN", bit |-> 1], [name |-> "SYN", bit |-> 2],
      [name |-> "RST", bit |-> 4], [name |-> "PSH", bit |-> 8],
      [name |-> "ACK", bit |-> 16], [name |-> "URG", bit |-> 32],
      [name |-> "ECE", bit |-> 64], [name |-> "CWR", bit |-> 128]>>

\* the names of the bits set in b, in the order of the sequence order
RECURSIVE NamesIn(_, _)
NamesIn(order, b) ==
    IF order = <<>> THEN <<>>
    ELSE (IF (b \div Head(order).bit) % 2 = 1 THEN <<Head(order).name>> ELSE <<>>)
            \o NamesIn(Tail(order), b)

\* the sequence s in reverse
RECURSIVE Reverse(_)
Reverse(s) == IF s = <<>> THEN <<>> ELSE Reverse(Tail(s)) \o <<Head(s)>>

\* the rendering of 4.1: the set names in canonical order joined by " | ",
\* or UNINT, then the value in decimal
CanonicalRendering(b) ==
    (IF b = 0 THEN "UNINT" ELSE join(NamesIn(CanonicalOrder, b), " | "))
        \o " " \o fmt_dec(b)

\* C8 as claimed: both renderings, TcpFlags' and TcpFlag's, are the canonical
\* rendering.
C8_EveryRenderingCanonical ==
    op \in {"TcpFlags_fmt", "TcpFlag_fmt"} => ret.val = CanonicalRendering(tcp.flags)

\* C8, amended: TcpFlags renders the canonical rendering; TcpFlag renders the
\* value in lower-case hexadecimal, then the set names from CWR down to FIN
\* joined by ", ", and no sentinel.
C8_Renderings ==
    /\ op = "TcpFlags_fmt" => ret.val = CanonicalRendering(tcp.flags)
    /\ op = "TcpFlag_fmt" =>
            ret.val = fmt_hex(tcp.flags) \o " "
                        \o join(NamesIn(Reverse(CanonicalOrder), tcp.flags), ", ")

\* the rendering of SYN | ACK by TcpFlags
C8_Witness ==
    /\ op = "TcpFlags_fmt"
    /\ tcp.flags = BitOr(SYN, ACK)
    /\ ret.val = "SYN | ACK 18"

\* whether the bit of the flag is set in the flags byte
HasBit(flags, flag) == (flags \div flag) % 2 = 1

\* the fields of the known vector other than the flags; the acknowledgment
\* number 2271560481 is 34661 * 65536 + 17185
KnownVectorFields(h) ==
    /\ h.source_port = 49320
    /\ h.dest_port = 8080
    /\ h.seq_num.hi * 65536 + h.seq_num.lo = 305419896
    /\ h.ack_num = U32(34661, 17185)
    /\ h.window_size = 255
    /\ h.checksum = 61453

\* C9 as claimed: the known vector decodes to the sample fields with flags
\* that contain SYN and ACK.
C9_KnownVectorDecodesSynAck ==
    (op \in {"try_from", "TcpHeader_from_bytes"} /\ bytes = KnownVector)
        => /\ ret.tag \in {"Ok", "Some"}
           /\ KnownVectorFields(ret.val)
           /\ HasBit(ret.val.flags, SYN)
           /\ HasBit(ret.val.flags, ACK)

\* C9, amended: the known vector decodes to the sample fields with the flags
\* byte 0x18, which is PSH and ACK and does not contain SYN.
C9_KnownVectorDecodes ==
    (op \in {"try_from", "TcpHeader_from_bytes"} /\ bytes = KnownVector)
        => /\ ret.tag \in {"Ok", "Some"}
           /\ KnownVectorFields(ret.val)
           /\ ret.val.flags = 24
           /\ HasBit(ret.val.flags, PSH)
           /\ HasBit(ret.val.flags, ACK)
           /\ ~HasBit(ret.val.flags, SYN)
           /\ \A f \in {FIN, RST, URG, ECE, CWR} : ~HasBit(ret.val.flags, f)

\* the known vector decoded by Tcp::try_from
C9_Witness ==
    /\ op = "try_from"
    /\ bytes = KnownVector
    /\ ret.tag = "Ok"
    /\ ret.val.flags = BitOr(PSH, ACK)

\* C10 as claimed: the sample header, whose flags are SYN | ACK, serializes
\* to the known vector.
C10_SampleEncodesToKnownVector ==
    (op \in {"to_bytes", "TcpHeader_to_bytes"} /\ tcp = SampleTcp)
        => ret.val = KnownVector

\* C10, amended: the sample header serializes to the known vector with 0x12
\* in byte 13; the known vector itself is the serialization of the same
\* fields with the flags byte 0x18, PSH | ACK.
C10_SampleEncodes ==
    op \in {"to_bytes", "TcpHeader_to_bytes"} =>
        /\ tcp = SampleTcp => ret.val = [KnownVector EXCEPT ![14] = 18]
        /\ tcp = [SampleTcp EXCEPT !.flags = BitOr(PSH, ACK)]
                => ret.val = KnownVector

\* the sample header serialized by Tcp::to_bytes
C10_Witness ==
    /\ op = "to_bytes"
    /\ tcp = SampleTcp
    /\ tcp.flags = BitOr(SYN, ACK)
    /\ At(ret.val, 13) = 18


(***************************************************************************)
(* C11.  calculate_checksum treats the header's checksum field as 0: two   *)
(* headers that differ only in their stored checksum field, with the same  *)
(* addresses and payload, have the same checksum, and therefore the same   *)
(* to_be_bytes.  Whatever checksum the header of the call stores, the      *)
(* result is the one computed for that header with the field cleared.      *)
(***************************************************************************)
ChecksumCleared(t) == [t EXCEPT !.checksum = 0]

C11_ChecksumFieldIgnored ==
    /\ op \in {"calculate_checksum", "TcpHeader_calculate_checksum"}
          => ret.val = calculate_checksum(ChecksumCleared(tcp), src_ip, dst_ip, payload)
    /\ op = "TcpHeader_to_be_bytes"
          => ret.val = TcpHeader_to_be_bytes(ChecksumCleared(tcp), src_ip, dst_ip, payload)


(***************************************************************************)
(* C12.  After any sequence of setter calls on a fresh TcpBuilder, build   *)
(* returns a header in which each of source_port, dest_port, seq_num,      *)
(* ack_num, flags and window_size equals the argument of the last call of  *)
(* its setter, or its default (ports 0, seq 0, ack 0, flags empty, window  *)
(* 1024) when that setter was never called.  A setter changes no other     *)
(* field, and build leaves the builder unchanged, so two consecutive       *)
(* builds with the same arguments return equal headers.                    *)
(***************************************************************************)
BuilderFields ==
    {"source_port", "dest_port", "seq_num", "ack_num", "flags", "window_size"}

BuilderDefaults ==
    [source_port |-> 0, dest_port |-> 0,
     seq_num |-> [hi |-> 0, lo |-> 0], ack_num |-> [hi |-> 0, lo |-> 0],
     flags |-> 0, window_size |-> 1024]

\* what the calls made so far configure for the field f
Configured(f) ==
    IF last_set[f].tag = "Some" THEN last_set[f].val ELSE BuilderDefaults[f]

C12_Accumulated ==
    /\ \A f \in BuilderFields : builder[f] = Configured(f)
    /\ op = "build" => \A f \in BuilderFields : ret.val[f] = Configured(f)

C12_Frame ==
    /\ op' \in BuilderFields
          => /\ builder'[op'] = arg'
             /\ \A g \in BuilderFields \ {op'} : builder'[g] = builder[g]
    /\ op' = "build"
          => /\ builder' = builder
             /\ op = "build" => ret' = ret

C12_Builder == []C12_Accumulated /\ [][C12_Frame]_vars

\* build after source_port(49320) and flags(SYN | ACK) only: the other four
\* fields come out as their defaults
C12_Witness ==
    /\ op = "build"
    /\ last_set.source_port = Some(49320)
    /\ last_set.flags = Some(BitOr(SYN, ACK))
    /\ \A f \in BuilderFields \ {"source_port", "flags"} : last_set[f] = None
    /\ ret.val.source_port = 49320
    /\ ret.val.flags = 18
    /\ ret.val.dest_port = 0
    /\ ret.val.seq_num = [hi |-> 0, lo |-> 0]
    /\ ret.val.ack_num = [hi |-> 0, lo |-> 0]
    /\ ret.val.window_size = 1024


(***************************************************************************)
(* C13.  For every flag set s and every named flag f among FIN, SYN, RST,  *)
(* PSH, ACK, URG, ECE, CWR: after union or insert of f the set contains f, *)
(* after remove of f the set does not contain f, and in both cases every   *)
(* other bit of s is unchanged.                                            *)
(***************************************************************************)
\* the flag sets before and after agree on every bit but f
SameOtherBits(before, after, f) ==
    \A g \in {1, 2, 4, 8, 16, 32, 64, 128} \ {f} :
        HasBit(after, g) <=> HasBit(before, g)

C13_FlagStep ==
    /\ op' = "insert"
          => /\ contains(tcp'.flags, arg')
             /\ HasBit(tcp'.flags, arg')
             /\ SameOtherBits(tcp.flags, tcp'.flags, arg')
    /\ op' = "remove"
          => /\ ~contains(tcp'.flags, arg')
             /\ ~HasBit(tcp'.flags, arg')
             /\ SameOtherBits(tcp.flags, tcp'.flags, arg')
    /\ op' = "union"
          => /\ contains(ret'.val, arg')
             /\ HasBit(ret'.val, arg')
             /\ SameOtherBits(tcp.flags, ret'.val, arg')
             /\ tcp'.flags = tcp.flags

C13_FlagOps == [][C13_FlagStep]_vars

\* remove(FIN) has left SYN alone, as in the test on SYN | FIN
C13_Witness ==
    /\ op = "remove"
    /\ arg = FIN
    /\ tcp.flags = SYN


(***************************************************************************)
(* C14.  For the sample header {source_port 49320, dest_port 8080,         *)
(* seq_num 305419896, ack_num 2271560481, flags SYN|ACK, window_size 255}, *)
(* the addresses 192.168.1.1 and 192.168.1.2 and the 11-byte payload       *)
(* "Hello, TCP!", calculate_checksum returns a non-zero value, both with   *)
(* the checksum field 0 and with the checksum field 61453.                 *)
(***************************************************************************)
\* 305419896 = 4660 * 65536 + 22136, 2271560481 = 34661 * 65536 + 17185
C14_SampleCase ==
    /\ tcp.source_port = 49320
    /\ tcp.dest_port = 8080
    /\ tcp.seq_num = [hi |-> 4660, lo |-> 22136]
    /\ tcp.ack_num = [hi |-> 34661, lo |-> 17185]
    /\ tcp.flags = 2 + 16
    /\ tcp.window_size = 255
    /\ tcp.checksum \in {0, 61453}
    /\ src_ip = <<192, 168, 1, 1>>
    /\ dst_ip = <<192, 168, 1, 2>>
    /\ payload = <<72, 101, 108, 108, 111, 44, 32, 84, 67, 80, 33>>

C14_SampleChecksumNonZero ==
    (/\ op \in {"calculate_checksum", "TcpHeader_calculate_checksum"}
     /\ C14_SampleCase)
        => ret.val # 0

\* the checksum of the sample with the checksum field 0
C14_Witness ==
    /\ op = "calculate_checksum"
    /\ C14_SampleCase
    /\ tcp.checksum = 0
    /\ ret.val = 36933


(***************************************************************************)
(* C15.  Verification identity: for every builder configuration, address   *)
(* pair and payload, calculate_checksum applied to the header returned by  *)
(* TcpBuilder::build (with its checksum field filled in) and the same      *)
(* addresses and payload returns 0; that is, the ones'-complement sum over *)
(* the pseudo-header, the finalized header and the payload folds to        *)
(* 0xFFFF.                                                                 *)
(***************************************************************************)
C15_VerificationIdentity ==
    /\ op = "verify" => ret.val = 0
    /\ op = "build"
          => AsU16(fold(checksum_sum(to_bytes(ret.val), src_ip, dst_ip, payload)))
                = 65535

\* the verification of a header built for "Hello, TCP!" (odd length), whose
\* checksum field is not 0
C15_Witness ==
    /\ op = "verify"
    /\ payload = <<72, 101, 108, 108, 111, 44, 32, 84, 67, 80, 33>>
    /\ builder.source_port = 49320
    /\ builder.flags = BitOr(SYN, ACK)
    /\ build(builder, src_ip, dst_ip, payload).checksum # 0
    /\ ret.val = 0


(***************************************************************************)
(* C16.  Echo server: for every accepted connection, under any             *)
(* interleaving of the handler tasks, the address's entry is removed from  *)
(* the shared map if and only if its handler task ends because a read      *)
(* returned 0 bytes; when the handler ends because of a read error or a    *)
(* write error the entry stays in the map in state Established; and a      *)
(* handler never removes or changes the entry of another address.          *)
(* For every connection that has a handler: its address has no entry only  *)
(* if its own handler ended on a read of 0 bytes, and has the entry        *)
(* Established if its handler ended on an error.                           *)
(***************************************************************************)
HasEntry(m, a) == a \in DOMAIN m

Established(m, a) == HasEntry(m, a) /\ m[a] = "Established"

EndedByError(c) == c.end \in {"read_error", "write_error"}

C16_EntryFollowsHandlerEnd ==
    \A i \in 1..MaxConns :
        conns[i] # NoConn
            => /\ ~HasEntry(states, conns[i].addr) => conns[i].end = "closed"
               /\ EndedByError(conns[i]) => Established(states, conns[i].addr)

====
